---------------------------- MODULE Spec2Model ----------------------------
(***************************************************************************)
(* A model of two pieces of the event pipeline:                            *)
(*                                                                         *)
(*   - src/event/util/log/insert.rs: insert / map_insert / array_insert,   *)
(*     the path-addressed insertion into a tree of Values;                 *)
(*   - src/sinks/util/encoding/encoding_config_with_default.rs: the        *)
(*     EncodingConfigWithDefault structure, its setters, From<E> and its   *)
(*     Deserialize implementation.                                         *)
(*                                                                         *)
(* Spec calls insert on maps that earlier insertions built, SpecFresh      *)
(* calls it once on an empty map with longer paths, and SpecEncoding       *)
(* builds an encoding configuration and applies its setters.               *)
(***************************************************************************)
EXTENDS Integers, Sequences, FiniteSets, TLC

VARIABLES
    fields,          \* the BTreeMap<Atom, Value> the caller passes to insert
    before,          \* that map as it was when the last call started
    path,            \* the components PathIter yielded for the last call
    value,           \* the Value passed to the last call
    outcome,         \* "none" | "returned" | "panicked": how the last call ended
    repeated,        \* the last call repeated the call before it (same path, same value)
    overflow_checks, \* whether the build traps integer overflow (debug) or wraps (release)
    heap_limit,      \* how many values the allocator grants one vector
    config,          \* the EncodingConfigWithDefault<E> under construction or in use
    before_config,   \* config as it was when the last operation started
    op,              \* the last operation applied to config
    arg,             \* the argument of the last operation
    ret,             \* what the last operation returned
    validate_calls   \* how many times the last deserialize called validate

insert_vars == <<fields, before, path, value, outcome, repeated, overflow_checks, heap_limit>>
encoding_vars == <<config, before_config, op, arg, ret, validate_calls>>
vars == <<insert_vars, encoding_vars>>

---------------------------------------------------------------------------
(* Bounds of the exploration. *)

\* usize is 16, 32 or 64 bits wide depending on the target; the model takes
\* the 16-bit targets, whose usize::MAX fits 32-bit integer arithmetic.
WordBits == 16
\* Index components are drawn from 0..MaxIndex and usize::MAX.
MaxIndex == 1
\* Paths hold at most MaxPathLen components.
MaxPathLen == 2
\* The starting maps hold at most MaxTreeSize values, containers included.
MaxTreeSize == 2
\* SpecFresh: index components 0..FreshMaxIndex, paths of at most FreshMaxPathLen.
FreshMaxIndex == 2
FreshMaxPathLen == 5
\* Field lists of the encoding configuration hold at most MaxFields names.
MaxFields == 1

\* A process short of memory: the allocator grants one vector a buffer of at
\* most HeapValues values.
HeapValues == 1

USIZE_MAX == 2^WordBits - 1
ISIZE_MAX == 2^(WordBits - 1) - 1
\* size_of::<Value>(): four machine words, in bytes.
SIZE_OF_VALUE == 4 * (WordBits \div 8)
\* The longest Vec<Value> whose buffer stays within isize::MAX bytes.
MAX_VEC_LEN == ISIZE_MAX \div SIZE_OF_VALUE
\* RawVec::MIN_NON_ZERO_CAP for elements of at most 1024 bytes: the smallest
\* buffer a growing vector asks for.
MIN_NON_ZERO_CAP == 4

---------------------------------------------------------------------------
(* Value, PathComponent *)

Null == [type |-> "Null"]
Integer(n) == [type |-> "Integer", int |-> n]
Map(m) == [type |-> "Map", map |-> m]
\* Vec<Value>: its elements and the capacity of its buffer.
Vec(items, cap) == [items |-> items, cap |-> cap]
\* Vec::new()
VecNew == Vec(<<>>, 0)
\* Value::Array(vec)
Array(vec) == [type |-> "Array", array |-> vec.items, cap |-> vec.cap]
\* The Vec<Value> inside a Value::Array
VecOf(v) == Vec(v.array, v.cap)

IsMap(v) == v.type = "Map"
IsArray(v) == v.type = "Array"

Key(s) == [kind |-> "Key", key |-> s]
Index(n) == [kind |-> "Index", index |-> n]

IsKey(c) == c.kind = "Key"
IsIndex(c) == c.kind = "Index"

\* BTreeMap::new()
BTreeMapNew == [k \in {} |-> Null]

\* BTreeMap::insert written as an update of an existing key only.
BTreeMapInsert_UpdateOnly(m, k, v) == [x \in DOMAIN m |-> IF x = k THEN v ELSE m[x]]

\* BTreeMap::insert(key, value): sets the key, replacing any previous value.
BTreeMapInsert(m, k, v) == [x \in (DOMAIN m) \cup {k} |-> IF x = k THEN v ELSE m[x]]

\* The result of a call that may panic. The container is mutated through a
\* &mut borrow, so out is the container as the call left it: complete when it
\* returned, with whatever had been written before the panic otherwise.
Returned(c) == [panicked |-> FALSE, out |-> c]
Panicked(c) == [panicked |-> TRUE, out |-> c]

\* next + 1 on usize: traps on overflow when the build checks it, wraps otherwise.
AddOne(n) ==
    IF n + 1 > USIZE_MAX
    THEN IF overflow_checks THEN Panicked(0) ELSE Returned((n + 1) % 2^WordBits)
    ELSE Returned(n + 1)

\* A buffer of cap values can be had: it stays within isize::MAX bytes
\* (beyond that the vector panics with "capacity overflow") and the allocator
\* grants it (beyond that the allocation fails and the call does not return).
Granted(cap) == cap * SIZE_OF_VALUE <= ISIZE_MAX /\ cap <= heap_limit

\* RawVec::grow_amortized(len, 1), which push and insert call on a full
\* vector: the new buffer holds max(2 * cap, len + 1, MIN_NON_ZERO_CAP)
\* values. When it cannot be had the vector stays as it is.
grow_amortized(vec) ==
    LET required == Len(vec.items) + 1
        doubled == IF 2 * vec.cap > required THEN 2 * vec.cap ELSE required
        cap == IF doubled > MIN_NON_ZERO_CAP THEN doubled ELSE MIN_NON_ZERO_CAP
    IN  IF Granted(cap) THEN Returned([vec EXCEPT !.cap = cap]) ELSE Panicked(vec)

\* Vec::with_capacity(capacity)
VecWithCapacity(capacity) ==
    IF Granted(capacity) THEN Returned(Vec(<<>>, capacity)) ELSE Panicked(VecNew)

\* Vec::with_capacity(next + 1)
WithCapacityHint(next) ==
    LET n == AddOne(next)
    IN  IF n.panicked THEN Panicked(VecNew) ELSE VecWithCapacity(n.out)

RECURSIVE PadWithNull_OneMore(_, _)
RECURSIVE PadWithNull(_, _)

\* The padding loop written with <= : one Null too many.
PadWithNull_OneMore(values, current) ==
    LET len == Len(values.items)
    IN  IF len > current THEN Returned(values)
        ELSE IF len < values.cap
        THEN LET upto == IF current + 1 < values.cap THEN current + 1 ELSE values.cap
             IN  PadWithNull_OneMore(
                     [values EXCEPT !.items = @ \o [i \in 1..(upto - len) |-> Null]],
                     current)
        ELSE LET grown == grow_amortized(values)
             IN  IF grown.panicked THEN grown
                 ELSE PadWithNull_OneMore(grown.out, current)

\* while values.len() < current { values.push(Value::Null); }
\* The pushes that find room in the buffer are taken together; a push on a
\* full buffer grows it first. The pushes go into the caller's vector: when
\* one fails, the Nulls pushed before it stay.
PadWithNull(values, current) ==
    LET len == Len(values.items)
    IN  IF len >= current THEN Returned(values)
        ELSE IF len < values.cap
        THEN LET upto == IF current < values.cap THEN current ELSE values.cap
             IN  PadWithNull(
                     [values EXCEPT !.items = @ \o [i \in 1..(upto - len) |-> Null]],
                     current)
        ELSE LET grown == grow_amortized(values)
             IN  IF grown.panicked THEN grown
                 ELSE PadWithNull(grown.out, current)

\* Vec::insert(index, element): panics when index > len; grows a full buffer;
\* shifts everything from index on to the right.
VecInsert(values, index, element) ==
    LET len == Len(values.items)
        grown == IF len = values.cap THEN grow_amortized(values) ELSE Returned(values)
    IN  IF index > len THEN Panicked(values)
        ELSE IF grown.panicked THEN grown
        ELSE Returned([grown.out EXCEPT !.items =
                          SubSeq(@, 1, index) \o <<element>> \o SubSeq(@, index + 1, len)])

\* The tail shared by the three arms of array_insert: pad, then Vec::insert.
PadAndInsert(values, current, element) ==
    LET padded == PadWithNull(values, current)
    IN  IF padded.panicked THEN padded
        ELSE VecInsert(padded.out, current, element)

\* values.get_mut(current) yields Some(Value::Map(_))
GetsMap(values, current) ==
    current < Len(values.items) /\ IsMap(values.items[current + 1])

\* values.get_mut(current) yields Some(Value::Array(_))
GetsArray(values, current) ==
    current < Len(values.items) /\ IsArray(values.items[current + 1])

\* The existing map is never matched: a fresh map is built every time.
GetsMapAt_Never(flds, current) == FALSE

\* fields.get_mut(&current) yields Some(Value::Map(_))
GetsMapAt(flds, current) ==
    current \in DOMAIN flds /\ IsMap(flds[current])

\* fields.get_mut(&current) yields Some(Value::Array(_))
GetsArrayAt(flds, current) ==
    current \in DOMAIN flds /\ IsArray(flds[current])

RECURSIVE map_insert(_, _, _)
RECURSIVE array_insert(_, _, _)

map_insert(flds, path_iter, val) ==
    IF Len(path_iter) = 0 \/ ~IsKey(Head(path_iter))
    THEN Returned(flds)                                   \* _ => return
    ELSE
      LET current == Head(path_iter).key
          rest == Tail(path_iter)
      IN
      IF Len(rest) = 0
      THEN Returned(BTreeMapInsert(flds, current, val))
      ELSE IF IsKey(Head(rest))
      THEN
        IF GetsMapAt(flds, current)
        THEN LET r == map_insert(flds[current].map, rest, val)
             IN  [panicked |-> r.panicked,
                  out |-> [flds EXCEPT ![current] = Map(r.out)]]
        ELSE LET r == map_insert(BTreeMapNew, rest, val)
             IN  IF r.panicked THEN Panicked(flds)        \* the new map is dropped
                 ELSE Returned(BTreeMapInsert(flds, current, Map(r.out)))
      ELSE
        IF GetsArrayAt(flds, current)
        THEN LET r == array_insert(VecOf(flds[current]), rest, val)
             IN  [panicked |-> r.panicked,
                  out |-> [flds EXCEPT ![current] = Array(r.out)]]
        ELSE LET array == WithCapacityHint(Head(rest).index)
             IN  IF array.panicked THEN Panicked(flds)
                 ELSE LET r == array_insert(array.out, rest, val)
                      IN  IF r.panicked THEN Panicked(flds)   \* the new array is dropped
                          ELSE Returned(BTreeMapInsert(flds, current, Array(r.out)))

array_insert(values, path_iter, val) ==
    IF Len(path_iter) = 0 \/ ~IsIndex(Head(path_iter))
    THEN Returned(values)                                 \* _ => return
    ELSE
      LET current == Head(path_iter).index
          rest == Tail(path_iter)
      IN
      IF Len(rest) = 0
      THEN PadAndInsert(values, current, val)
      ELSE IF IsKey(Head(rest))
      THEN
        IF GetsMap(values, current)
        THEN LET r == map_insert(values.items[current + 1].map, rest, val)
             IN  [panicked |-> r.panicked,
                  out |-> [values EXCEPT !.items[current + 1] = Map(r.out)]]
        ELSE LET r == map_insert(BTreeMapNew, rest, val)
             IN  IF r.panicked THEN Panicked(values)
                 ELSE PadAndInsert(values, current, Map(r.out))
      ELSE
        IF GetsArray(values, current)
        THEN LET r == array_insert(VecOf(values.items[current + 1]), rest, val)
             IN  [panicked |-> r.panicked,
                  out |-> [values EXCEPT !.items[current + 1] = Array(r.out)]]
        ELSE LET array == WithCapacityHint(Head(rest).index)
             IN  IF array.panicked THEN Panicked(values)
                 ELSE LET r == array_insert(array.out, rest, val)
                      IN  IF r.panicked THEN Panicked(values)
                          ELSE PadAndInsert(values, current, Array(r.out))

\* insert that skips a leading Index component instead of giving up on it.
insert_SkipLeadingIndex(flds, components, val) ==
    IF Len(components) > 0 /\ IsIndex(Head(components))
    THEN map_insert(flds, Tail(components), val)
    ELSE map_insert(flds, components, val)

\* pub fn insert(fields, path, value): path is given as the components
\* PathIter::new(path) yields.
insert(flds, components, val) == map_insert(flds, components, val)

---------------------------------------------------------------------------
(* The callers of insert *)

Keys == {"a", "b"}
\* Small indexes and the largest index there is.
Indexes == (0..MaxIndex) \cup {USIZE_MAX}
Components == {Key(k) : k \in Keys} \cup {Index(i) : i \in Indexes}
Paths == UNION {[1..n -> Components] : n \in 0..MaxPathLen}
\* The values inserted: Null, a scalar, an empty map and an empty array.
Values == {Null, Integer(3), Map(BTreeMapNew), Array(VecNew)}

RECURSIVE ValueSize(_)
RECURSIVE MapSize(_)
RECURSIVE ArraySize(_)

\* The number of Values in a tree, containers included.
ValueSize(v) ==
    IF IsMap(v) THEN 1 + MapSize(v.map)
    ELSE IF IsArray(v) THEN 1 + ArraySize(v.array)
    ELSE 1

MapSize(m) ==
    IF DOMAIN m = {} THEN 0
    ELSE LET k == CHOOSE x \in DOMAIN m : TRUE
         IN  ValueSize(m[k]) + MapSize([x \in (DOMAIN m) \ {k} |-> m[x]])

ArraySize(a) ==
    IF Len(a) = 0 THEN 0 ELSE ValueSize(Head(a)) + ArraySize(Tail(a))

InsertInit ==
    /\ fields = BTreeMapNew
    /\ before = BTreeMapNew
    /\ path = <<>>
    /\ value = Null
    /\ outcome = "none"
    /\ repeated = FALSE
    /\ overflow_checks \in BOOLEAN
    /\ heap_limit \in {HeapValues, MAX_VEC_LEN}

\* The caller builds the starting map with earlier calls of insert; the
\* history variables record the calls that follow, not these.
Setup(p, v) ==
    LET r == insert(fields, p, v)
    IN  /\ outcome = "none"
        /\ ~r.panicked
        /\ r.out # fields
        /\ MapSize(r.out) <= MaxTreeSize
        /\ fields' = r.out
        /\ UNCHANGED <<before, path, value, outcome, repeated, overflow_checks, heap_limit>>
        /\ UNCHANGED encoding_vars

\* One call insert(&mut fields, p, v). A panic unwinds out of the call and
\* leaves in the map what the call had written before it; no further call is
\* made on the map.
Call(p, v, again) ==
    LET r == insert(fields, p, v)
    IN  /\ before' = fields
        /\ path' = p
        /\ value' = v
        /\ repeated' = again
        /\ outcome' = IF r.panicked THEN "panicked" ELSE "returned"
        /\ fields' = r.out
        /\ UNCHANGED <<overflow_checks, heap_limit>>

Insert(p, v) ==
    /\ outcome = "none"
    /\ Call(p, v, FALSE)
    /\ UNCHANGED encoding_vars

\* The caller repeats the call it just made, with the same path and value.
InsertAgain ==
    /\ outcome = "returned"
    /\ ~repeated
    /\ Call(path, value, TRUE)
    /\ UNCHANGED encoding_vars

---------------------------------------------------------------------------
(* EncodingConfigWithDefault<E> *)

\* Option<T>
None == [some |-> FALSE]
Some(x) == [some |-> TRUE, value |-> x]

\* The codec type E is a parameter of the structure; two codecs stand for it.
Codecs == {"json", "text"}
\* E::default()
DefaultCodec == "text"
TimestampFormats == {"unix", "rfc3339"}
FieldNames == {"a", "b"}
FieldLists == UNION {[1..n -> FieldNames] : n \in 0..MaxFields}

OptFieldLists == {None} \cup {Some(l) : l \in FieldLists}
OptTimestampFormats == {None} \cup {Some(t) : t \in TimestampFormats}

\* pub struct EncodingConfigWithDefault<E>
EncodingConfigWithDefault(codec, only_fields, except_fields, timestamp_format) ==
    [codec |-> codec, only_fields |-> only_fields,
     except_fields |-> except_fields, timestamp_format |-> timestamp_format]

\* #[derive(Default)]
ConfigDefault == EncodingConfigWithDefault(DefaultCodec, None, None, None)

\* The values a payload is made of.
JString(x) == [json |-> "string", str |-> x]
JArray(l) == [json |-> "array", items |-> l]

\* Strings a payload may give for the codec: the codecs, and a string that
\* names none.
CodecStrings == Codecs \cup {"xml"}
\* Strings a payload may give for the timestamp format.
TimestampFormatStrings == TimestampFormats \cup {"never"}

\* The keys of a map payload: the fields of InnerWithDefault.
FieldKeys == {"codec", "only_fields", "except_fields", "timestamp_format"}

\* What a map payload may give under a key: a value of the field's type, or
\* a value of another type or naming no variant.
EntryValues(key) ==
    IF key = "codec" THEN {JArray(<<>>)} \cup {JString(c) : c \in CodecStrings}
    ELSE IF key = "timestamp_format"
    THEN {JArray(<<>>)} \cup {JString(t) : t \in TimestampFormatStrings}
    ELSE {JString("a")} \cup {JArray(l) : l \in FieldLists}

RECURSIVE EntrySeqs(_)
\* The entries of a map payload, in the order the payload gives them: any
\* of the keys, each at most once.
EntrySeqs(keys) ==
    {<<>>} \cup UNION {
        {<<[key |-> k, value |-> v]>> \o rest :
            v \in EntryValues(k), rest \in EntrySeqs(keys \ {k})} : k \in keys}

\* What a deserializer is handed: a string, a map giving any of the four
\* fields in any order, or something that is neither.
Payloads ==
    {[shape |-> "str", str |-> c] : c \in CodecStrings}
    \cup {[shape |-> "map", entries |-> e] : e \in EntrySeqs(FieldKeys)}
    \cup {[shape |-> "other"]}

Ok(x) == [ok |-> TRUE, value |-> x]
Err(e) == [ok |-> FALSE, error |-> e]
\* The error the deserialization layer raises for a value it cannot read into
\* the type asked for. Its text is the deserializer's own.
ParseError == Err("ParseError")

\* fn codec(&self), only_fields(&self), except_fields(&self), timestamp_format(&self)
codec(self) == self.codec
only_fields(self) == self.only_fields
except_fields(self) == self.except_fields
timestamp_format(self) == self.timestamp_format

\* std::mem::replace(&mut self.only_fields, fields): the new self and the
\* value returned.
set_only_fields(self, flds) ==
    [self |-> [self EXCEPT !.only_fields = flds], ret |-> self.only_fields]

\* std::mem::replace(&mut self.only_fields, fields)
set_except_fields(self, flds) ==
    [self |-> [self EXCEPT !.only_fields = flds], ret |-> self.only_fields]

\* std::mem::replace(&mut self.timestamp_format, format)
set_timestamp_format(self, format) ==
    [self |-> [self EXCEPT !.timestamp_format = format], ret |-> self.timestamp_format]

\* impl From<E> for EncodingConfigWithDefault<E>
from(c) == EncodingConfigWithDefault(c, None, None, None)

\* validate that refuses two lists even when they are empty.
validate_BothPresent(self) ==
    IF self.only_fields.some /\ self.except_fields.some
    THEN Err("MutuallyExclusiveFields")
    ELSE Ok(self)

\* EncodingConfiguration::validate, which this file calls and does not
\* define: it fails when only_fields and except_fields are both present and
\* non-empty.
validate(self) ==
    IF /\ self.only_fields.some /\ self.except_fields.some
       /\ Len(self.only_fields.value) > 0
       /\ Len(self.except_fields.value) > 0
    THEN Err("MutuallyExclusiveFields")
    ELSE Ok(self)

\* T::deserialize(value.into_deserializer()): the codec a string names; a
\* string that names none is a parse error.
deserialize_codec(x) ==
    IF x \in Codecs THEN Ok(x) ELSE ParseError

\* The field a map entry is read into, by the field's type: codec a scalar
\* naming a codec, only_fields and except_fields a sequence, timestamp_format
\* a scalar naming a format. A value of another type, or naming nothing, is a
\* parse error.
deserialize_field(key, entry) ==
    IF key = "codec"
    THEN IF entry.json = "string" THEN deserialize_codec(entry.str)
         ELSE ParseError
    ELSE IF key = "timestamp_format"
    THEN IF entry.json = "string" /\ entry.str \in TimestampFormats
         THEN Ok(Some(entry.str))
         ELSE ParseError
    ELSE IF entry.json = "array" THEN Ok(Some(entry.items))
         ELSE ParseError

RECURSIVE deserialize_entries(_, _)
\* InnerWithDefault's derived Deserialize: the entries are read one after
\* the other, in the payload's order, and the first that cannot be read
\* ends the deserialization with its error; a field no entry gives keeps
\* its default.
deserialize_entries(entries, inner) ==
    IF Len(entries) = 0 THEN Ok(inner)
    ELSE LET key == Head(entries).key
             field == deserialize_field(key, Head(entries).value)
         IN  IF ~field.ok THEN field
             ELSE deserialize_entries(Tail(entries),
                                      [inner EXCEPT ![key] = field.value])

\* StringOrStruct::visit_str: the codec from the string, the rest defaulted;
\* a string that names no codec is an error.
visit_str(x) ==
    LET c == deserialize_codec(x)
    IN  IF ~c.ok THEN c
        ELSE Ok(EncodingConfigWithDefault(c.value, None, None, None))

\* StringOrStruct::visit_map: InnerWithDefault's own Deserialize, every
\* field #[serde(default)].
visit_map(payload) ==
    deserialize_entries(payload.entries,
                        EncodingConfigWithDefault(DefaultCodec, None, None, None))

\* deserializer.deserialize_any(StringOrStruct::<E>(PhantomData))
deserialize_any(payload) ==
    IF payload.shape = "str" THEN visit_str(payload.str)
    ELSE IF payload.shape = "map" THEN visit_map(payload)
    ELSE Err("invalid type: expected string or map")

\* impl Deserialize for EncodingConfigWithDefault<E>: the result, and how
\* many times validate was called.
deserialize(payload) ==
    LET inner == deserialize_any(payload)
    IN  IF ~inner.ok THEN [result |-> inner, validate_calls |-> 0]
        ELSE LET concrete == EncodingConfigWithDefault(
                     inner.value.codec, inner.value.only_fields,
                     inner.value.except_fields, inner.value.timestamp_format)
                 checked == validate(concrete)
             IN  [result |-> IF checked.ok THEN Ok(concrete) ELSE checked,
                  validate_calls |-> 1]

EncodingInit ==
    /\ config = ConfigDefault
    /\ before_config = ConfigDefault
    /\ op = "none"
    /\ arg = None
    /\ ret = None
    /\ validate_calls = 0

\* A configuration has been built and not lost to a failed deserialization.
ConfigExists ==
    \/ op \in {"from", "set_only_fields", "set_except_fields", "set_timestamp_format"}
    \/ op = "deserialize" /\ ret.ok

\* A configuration is built once, by deserialization or from a codec, and
\* the setters are then applied to it.
Deserialize(payload) ==
    LET r == deserialize(payload)
    IN  /\ op = "none"
        /\ before_config' = config
        /\ op' = "deserialize"
        /\ arg' = payload
        /\ ret' = r.result
        /\ validate_calls' = r.validate_calls
        /\ config' = IF r.result.ok THEN r.result.value ELSE ConfigDefault
        /\ UNCHANGED insert_vars

From(c) ==
    /\ op = "none"
    /\ before_config' = config
    /\ op' = "from"
    /\ arg' = Some(c)
    /\ ret' = None
    /\ config' = from(c)
    /\ UNCHANGED <<validate_calls, insert_vars>>

Setter(name, r, a) ==
    /\ ConfigExists
    /\ before_config' = config
    /\ op' = name
    /\ arg' = a
    /\ ret' = r.ret
    /\ config' = r.self
    /\ UNCHANGED <<validate_calls, insert_vars>>

SetOnlyFields(flds) == Setter("set_only_fields", set_only_fields(config, flds), flds)

SetExceptFields(flds) == Setter("set_except_fields", set_except_fields(config, flds), flds)

SetTimestampFormat(format) ==
    Setter("set_timestamp_format", set_timestamp_format(config, format), format)

DeserializeCall == op = "none" /\ \E payload \in Payloads : Deserialize(payload)

FromCall == op = "none" /\ \E c \in Codecs : From(c)

SetOnlyFieldsCall == \E flds \in OptFieldLists : SetOnlyFields(flds)

SetExceptFieldsCall == \E flds \in OptFieldLists : SetExceptFields(flds)

SetTimestampFormatCall == \E format \in OptTimestampFormats : SetTimestampFormat(format)

NextEncoding ==
    \/ DeserializeCall
    \/ FromCall
    \/ SetOnlyFieldsCall
    \/ SetExceptFieldsCall
    \/ SetTimestampFormatCall

InitEncoding ==
    EncodingInit /\ InsertInit /\ ~overflow_checks /\ heap_limit = MAX_VEC_LEN

SpecEncoding == InitEncoding /\ [][NextEncoding]_vars

---------------------------------------------------------------------------
Init == InsertInit /\ EncodingInit

\* No call has been recorded yet: the caller goes on building the map, or
\* makes the call that is recorded.
NoCallYet == outcome = "none"

SetupCall == NoCallYet /\ \E p \in Paths, v \in Values : Setup(p, v)

InsertCall == NoCallYet /\ \E p \in Paths, v \in Values : Insert(p, v)

Next == SetupCall \/ InsertCall \/ InsertAgain

Spec == Init /\ [][Next]_vars

\* A single insertion into an empty map, with longer paths over more keys
\* indexes small enough for the padding to be allocated, and memory to spare.
FreshKeys == {"a", "b", "c"}
FreshComponents == {Key(k) : k \in FreshKeys} \cup {Index(i) : i \in 0..FreshMaxIndex}
FreshPaths == UNION {[1..n -> FreshComponents] : n \in 0..FreshMaxPathLen}
\* The values of test_insert_nested and test_insert_array among them.
FreshValues == Values \cup {Integer(10)}

\* The caller has its path and its value in hand, and makes the call.
InitFresh ==
    /\ fields = BTreeMapNew
    /\ before = BTreeMapNew
    /\ path \in FreshPaths
    /\ value \in FreshValues
    /\ outcome = "none"
    /\ repeated = FALSE
    /\ overflow_checks \in BOOLEAN
    /\ heap_limit = MAX_VEC_LEN
    /\ EncodingInit

InsertFresh ==
    /\ outcome = "none"
    /\ Call(path, value, FALSE)
    /\ UNCHANGED encoding_vars

NextFresh == InsertFresh

SpecFresh == InitFresh /\ [][NextFresh]_vars

---------------------------------------------------------------------------
(* Properties of insert *)

Missing == [type |-> "Missing"]

\* An array given by its elements alone.
Elements(a) == [type |-> "Array", array |-> a]

RECURSIVE Plain(_)
\* A Value as PartialEq sees it: the elements of its arrays, not the
\* capacities of their buffers.
Plain(v) ==
    IF IsMap(v) THEN Map([k \in DOMAIN v.map |-> Plain(v.map[k])])
    ELSE IF IsArray(v) THEN Elements([j \in 1..Len(v.array) |-> Plain(v.array[j])])
    ELSE v

RECURSIVE Lookup(_, _)
\* The Value found by descending v along the components p: a Key selects a
\* map's entry, an Index an array's element; Missing when the descent fails.
Lookup(v, p) ==
    IF Len(p) = 0 THEN v
    ELSE IF IsKey(Head(p))
    THEN IF IsMap(v) /\ Head(p).key \in DOMAIN v.map
         THEN Lookup(v.map[Head(p).key], Tail(p))
         ELSE Missing
    ELSE IF IsArray(v) /\ Head(p).index < Len(v.array)
         THEN Lookup(v.array[Head(p).index + 1], Tail(p))
         ELSE Missing

RECURSIVE OnlyPath(_, _)
\* The Value that holds v at the components p and nothing else: a one-entry
\* map for a Key, for an Index i an array of i Nulls followed by one element.
OnlyPath(p, v) ==
    IF Len(p) = 0 THEN v
    ELSE IF IsKey(Head(p))
    THEN Map([k \in {Head(p).key} |-> OnlyPath(Tail(p), v)])
    ELSE Elements([j \in 1..(Head(p).index + 1) |->
                   IF j = Head(p).index + 1 THEN OnlyPath(Tail(p), v) ELSE Null])

\* The last call descended through a Key of the root map.
Descended == outcome = "returned" /\ Len(path) >= 2 /\ IsKey(path[1])

\* Before the last call the root map held a Map, or an Array, at key k.
HeldMap(k) == k \in DOMAIN before /\ before[k].type = "Map"
HeldArray(k) == k \in DOMAIN before /\ before[k].type = "Array"

\* C1: calling insert a second time with the same path and the same value
\* leaves the tree as the first call left it.
C1_InsertIdempotent ==
    (repeated /\ outcome = "returned") => Plain(Map(fields)) = Plain(Map(before))

\* C2: an Index i reached inside an existing array longer than i replaces
\* position i: the array keeps its length, every other element keeps its
\* index and its value, and position i holds the value when i is the last
\* component.
C2_ArrayOverwriteInPlace ==
    (/\ Descended
     /\ IsIndex(path[2])
     /\ HeldArray(path[1].key)
     /\ path[2].index < Len(before[path[1].key].array))
    => LET old == before[path[1].key].array
           new == fields[path[1].key]
           i == path[2].index
       IN  /\ IsArray(new)
           /\ Len(new.array) = Len(old)
           /\ \A j \in 1..Len(old) : j # i + 1 => Plain(new.array[j]) = Plain(old[j])
           /\ Len(path) = 2 => Plain(new.array[i + 1]) = Plain(value)

\* C6: no call of insert panics, whatever the map and the components,
\* usize::MAX as an Index included.
C6_InsertNeverPanics == outcome # "panicked"

\* C7: descending through a Key of the map: a value there that is not a
\* container of the type the next component needs (absent, scalar, Null, an
\* Array for a Key, a Map for an Index) is replaced by a fresh container that
\* holds the rest of the path and nothing else; a container of the needed
\* type is reused, and its other entries are kept (a map's other keys with
\* their values; an array's other elements, those below the index in place
\* and those above it in place or one position up).
C7_PrefixOverwrite ==
    Descended =>
      LET k == path[1].key
          new == fields[k]
      IN  IF IsKey(path[2])
          THEN IF HeldMap(k)
               THEN /\ IsMap(new)
                    /\ \A k2 \in (DOMAIN before[k].map) \ {path[2].key} :
                          /\ k2 \in DOMAIN new.map
                          /\ Plain(new.map[k2]) = Plain(before[k].map[k2])
               ELSE Plain(new) = OnlyPath(Tail(path), Plain(value))
          ELSE IF HeldArray(k)
               THEN LET old == before[k].array
                        i == path[2].index
                    IN  /\ IsArray(new)
                        /\ Len(new.array) >= Len(old)
                        /\ \A j \in 1..Len(old) :
                              /\ j < i + 1 => Plain(new.array[j]) = Plain(old[j])
                              /\ j > i + 1 =>
                                    \/ Plain(new.array[j]) = Plain(old[j])
                                    \/ /\ j + 1 <= Len(new.array)
                                       /\ Plain(new.array[j + 1]) = Plain(old[j])
               ELSE Plain(new) = OnlyPath(Tail(path), Plain(value))

\* An Array stood where the path needs a Map, and was replaced.
C7_Witness ==
    /\ Descended
    /\ IsKey(path[2])
    /\ path[1].key \in DOMAIN before
    /\ IsArray(before[path[1].key])
    /\ Len(before[path[1].key].array) > 0
    /\ Plain(fields[path[1].key]) = OnlyPath(Tail(path), Plain(value))

\* C10: with an empty path, or a path whose first component is an Index,
\* insert returns and leaves the tree as it was.
C10_UncoveredPathNoOp ==
    (outcome # "none" /\ (Len(path) = 0 \/ IsIndex(path[1])))
    => (outcome = "returned" /\ Plain(Map(fields)) = Plain(Map(before)))

\* A non-empty tree was handed a path that starts with an Index.
C10_Witness ==
    /\ outcome = "returned"
    /\ Len(path) = 2
    /\ IsIndex(path[1])
    /\ IsKey(path[2])
    /\ before # BTreeMapNew
    /\ Plain(Map(fields)) = Plain(Map(before))

\* C8: a path into an empty map whose indexes can be allocated: the call
\* returns, and every Index i on the path finds an array of length exactly
\* i + 1, Null at every index below i and the rest of the path (the value,
\* for the last component) at i; so 10 at a.b[0].c[2] gives
\* {a: {b: [{c: [Null, Null, 10]}]}}.
C8_SparseArrayPadsWithNull ==
    (outcome # "none" /\ Len(path) > 0 /\ IsKey(path[1])) =>
      /\ outcome = "returned"
      /\ Plain(Lookup(Map(fields), path)) = Plain(value)
      /\ \A n \in 1..Len(path) :
            IsIndex(path[n]) =>
              LET arr == Lookup(Map(fields), SubSeq(path, 1, n - 1))
                  i == path[n].index
              IN  /\ IsArray(arr)
                  /\ Len(arr.array) = i + 1
                  /\ \A j \in 1..i : arr.array[j] = Null
                  /\ arr.array[i + 1] = Lookup(Map(fields), SubSeq(path, 1, n))
      /\ (path = <<Key("a"), Key("b"), Index(0), Key("c"), Index(2)>>
          /\ value = Integer(10))
         => Plain(Map(fields)) = Map([a \in {"a"} |-> Map([b \in {"b"} |->
                         Elements(<<Map([c \in {"c"} |->
                             Elements(<<Null, Null, Integer(10)>>)])>>)])])

\* insert(&mut fields, "a.b[0].c[2]", Value::Integer(10)) has returned.
C8_Witness ==
    /\ outcome = "returned"
    /\ path = <<Key("a"), Key("b"), Index(0), Key("c"), Index(2)>>
    /\ value = Integer(10)
    /\ fields["a"].map["b"].array[1].map["c"].array = <<Null, Null, Integer(10)>>

\* A path made only of Key components.
KeysOnly(p) == \A n \in 1..Len(p) : IsKey(p[n])

\* C9: a value inserted into an empty map at a non-empty path of keys is
\* found by descending the nested maps along the path, and the tree holds
\* nothing but the chain of maps along the path.
C9_KeyPathRoundTrip ==
    (outcome # "none" /\ Len(path) > 0 /\ KeysOnly(path)) =>
      /\ outcome = "returned"
      /\ Plain(Lookup(Map(fields), path)) = Plain(value)
      /\ Plain(Map(fields)) = OnlyPath(path, Plain(value))

\* insert(&mut fields, "a.b.c", Value::Integer(3)) has returned.
C9_Witness ==
    /\ outcome = "returned"
    /\ path = <<Key("a"), Key("b"), Key("c")>>
    /\ value = Integer(3)
    /\ Lookup(Map(fields), path) = Integer(3)

---------------------------------------------------------------------------
(* Properties of EncodingConfigWithDefault *)

\* Both field lists are present.
BothPresent(self) == self.only_fields.some /\ self.except_fields.some

\* C3: set_except_fields(f) leaves except_fields() = f, leaves only_fields(),
\* timestamp_format() and codec() as they were and returns the previous
\* except_fields; set_only_fields does the same for only_fields.
C3_SettersIndependent ==
    /\ op = "set_except_fields" =>
          /\ except_fields(config) = arg
          /\ only_fields(config) = only_fields(before_config)
          /\ timestamp_format(config) = timestamp_format(before_config)
          /\ codec(config) = codec(before_config)
          /\ ret = except_fields(before_config)
    /\ op = "set_only_fields" =>
          /\ only_fields(config) = arg
          /\ except_fields(config) = except_fields(before_config)
          /\ timestamp_format(config) = timestamp_format(before_config)
          /\ codec(config) = codec(before_config)
          /\ ret = only_fields(before_config)

\* The payload of the last deserialization gives a value under key.
Gives(key) == \E i \in 1..Len(arg.entries) : arg.entries[i].key = key

\* The value it gives there.
Given(key) ==
    arg.entries[CHOOSE i \in 1..Len(arg.entries) : arg.entries[i].key = key].value

\* It gives a non-empty list under key.
GivesList(key) ==
    Gives(key) /\ Given(key).json = "array" /\ Len(Given(key).items) > 0

\* The payload of the last deserialization gives both lists, non-empty.
PayloadGivesBoth ==
    arg.shape = "map" /\ GivesList("only_fields") /\ GivesList("except_fields")

\* The payload of the last deserialization is a string naming a codec, or a
\* map whose entries are values of their fields' types.
PayloadParses ==
    \/ arg.shape = "str" /\ arg.str \in Codecs
    \/ /\ arg.shape = "map"
       /\ Gives("codec") =>
              (Given("codec").json = "string" /\ Given("codec").str \in Codecs)
       /\ Gives("only_fields") => Given("only_fields").json = "array"
       /\ Gives("except_fields") => Given("except_fields").json = "array"
       /\ Gives("timestamp_format") =>
              /\ Given("timestamp_format").json = "string"
              /\ Given("timestamp_format").str \in TimestampFormats

\* The field list the payload describes under key.
Described(key) ==
    IF arg.shape = "map" /\ Gives(key) /\ Given(key).json = "array"
    THEN Some(Given(key).items) ELSE None

\* C4 as claimed: deserialization fails with MutuallyExclusiveFields exactly
\* when the payload gives only_fields and except_fields both as non-empty
\* lists; a string or a map with at most one of them deserializes
\* successfully; validate is called once.
C4_DeserializeValidates ==
    op = "deserialize" =>
      /\ (~ret.ok /\ ret.error = "MutuallyExclusiveFields") <=> PayloadGivesBoth
      /\ (arg.shape \in {"str", "map"} /\ ~PayloadGivesBoth) =>
            /\ ret.ok
            /\ ret.value = config
      /\ arg.shape \in {"str", "map"} => validate_calls = 1

\* C4 as amended: for a payload that parses (a string naming a codec, or a
\* map whose entries are values of their fields' types), deserialization
\* fails with MutuallyExclusiveFields exactly when the payload gives
\* only_fields and except_fields both as non-empty lists, a payload with at
\* most one of them deserializes to the value it describes, and validate is
\* called once; a payload that does not parse is refused with another error
\* and validate is not called.
C4_ParsedPayloadValidated ==
    op = "deserialize" =>
      /\ (~ret.ok /\ ret.error = "MutuallyExclusiveFields")
            <=> (PayloadParses /\ PayloadGivesBoth)
      /\ (PayloadParses /\ ~PayloadGivesBoth) =>
            /\ ret.ok
            /\ ret.value = config
            /\ only_fields(config) = Described("only_fields")
            /\ except_fields(config) = Described("except_fields")
      /\ PayloadParses => validate_calls = 1
      /\ ~PayloadParses => (~ret.ok /\ validate_calls = 0)

\* A payload that parses and gives both lists was refused.
C4_Witness ==
    /\ op = "deserialize"
    /\ PayloadParses
    /\ PayloadGivesBoth
    /\ ~ret.ok
    /\ ret.error = "MutuallyExclusiveFields"
    /\ validate_calls = 1

\* C5: whatever built the configuration (a successful deserialization or
\* From) and whatever setters followed, only_fields and except_fields are
\* never both present.
C5_NeverBothPresent == ConfigExists => ~BothPresent(config)

=============================================================================
